---- MODULE Spec2Model ----
(***************************************************************************)
(* Spatial Bloom Filter (libSBF-cpp): the filter engine of class sbf::SBF. *)
(* State: the byte array `filter`, the per-area counters and the two       *)
(* filter-wide counters, plus the configuration fixed by the constructor.  *)
(* Insert and Check are modelled one hash round per step, as their loops   *)
(* run; Hash (OpenSSL) is an arbitrary but fixed function chosen at        *)
(* construction.                                                           *)
(***************************************************************************)
EXTENDS Integers, Sequences, FiniteSets, TLC

(* ------------------------------ bounds --------------------------------- *)
\* bit_mapping ranges over 1..MaxBits (the filter has 2^bit_mapping cells)
MaxBits == 1
\* HASH_number ranges over 1..MaxHash
MaxHash == 2
\* at most MaxInserts calls of Insert in one run
MaxInserts == 2
\* at most MaxBad of them carry a label outside [1, AREA_number]
MaxBad == 1

(* ------------------------- program constants --------------------------- *)
MAX_INPUT_SIZE == 128
MAX_BIT_MAPPING == 32
MAX_BYTE_MAPPING == MAX_BIT_MAPPING \div 8
MAX_AREA_NUMBER == 65535
MAX_HASH_NUMBER == 1024
\* the range of int, the type of the fields cells and size
INT_MAX == 2147483647
INT_MIN == (-INT_MAX) - 1

(* --------------------------- input domains ----------------------------- *)
\* the elements handed to Insert and Check: "" and "a"
Elements == { <<>>, <<97>> }
\* the values a salt byte takes
SaltBytes == { 0, 3 }
\* the length of the longest element: the salt bytes beyond it are never read
LongestElement == CHOOSE n \in { Len(e) : e \in Elements } :
                     \A e \in Elements : Len(e) <= n
\* the first MAX_BYTE_MAPPING bytes of the digests the hash produces
Digests == { <<64, 17, 34, 128>>, <<128, 1, 2, 64>> }
\* the values of AREA_number: 1-byte cells (<= 255) and 2-byte cells
AreaNumbers == { 2, 256 }

\* the arguments handed to the constructor: below, at and above each limit
\* of its validation, and the values the filters above are built with
BitMappings == { 0 } \cup (1..MaxBits)
               \cup ((MAX_BIT_MAPPING - 2)..(MAX_BIT_MAPPING + 1))
HashFamilies == { 1, 4, 5, 7 }
HashNumbers == { 0 } \cup (1..MaxHash) \cup { MAX_HASH_NUMBER, MAX_HASH_NUMBER + 1 }
AreaArguments == { 0 } \cup AreaNumbers \cup { MAX_AREA_NUMBER, MAX_AREA_NUMBER + 1 }
SaltPaths == { "", "salt" }

VARIABLES
    filter,               \* BYTE *filter, indexed 0..size-1
    bit_mapping, cells, cell_size, size,
    HASH_number, HASH_salt, AREA_number, BIG_end,
    md,                   \* the selected hash function, buffer -> digest
    AREA_members, AREA_cells, AREA_self_collisions,
    members, collisions,
    pc,                   \* "idle", "Insert" or "Check"
    frame,                \* arguments and locals of the running call
    branch,               \* the branch the last SetCell round took
    entry,                \* the state at the entry of the last Insert
    last,                 \* the last completed call
    bad,                  \* number of Insert calls with a label outside [1, AREA_number]
    ascending,            \* the labels of the Insert calls so far are non-decreasing
    precondition          \* the labels of the Insert calls so far are positive and fit the cell

vars == << filter, bit_mapping, cells, cell_size, size, HASH_number, HASH_salt,
           AREA_number, BIG_end, md, AREA_members, AREA_cells,
           AREA_self_collisions, members, collisions, pc, frame, branch,
           entry, last, bad, ascending, precondition >>

config == << bit_mapping, cells, cell_size, size, HASH_number, HASH_salt,
             AREA_number, BIG_end, md >>

(* ------------------------------ helpers -------------------------------- *)
RECURSIVE Pow2(_)
Pow2(n) == IF n = 0 THEN 1 ELSE 2 * Pow2(n - 1)

\* bitwise exclusive or of two bytes (operator ^ of Insert and Check)
RECURSIVE XorBits(_, _, _)
XorBits(a, b, n) ==
    IF n = 0 THEN 0
    ELSE ((a + b) % 2) + 2 * XorBits(a \div 2, b \div 2, n - 1)

Xor(a, b) == XorBits(a, b, 8)

\* the XOR of the element with the first bytes of a salt
XorBuffer(string, salt) == [ j \in 1..Len(string) |-> Xor(string[j], salt[j]) ]

\* every buffer Hash can be called on
Buffers == { XorBuffer(e, s) : e \in Elements, s \in [1..LongestElement -> SaltBytes] }

(* ---------------------------- constructor ------------------------------ *)
\* 1 byte per cell for up to 255 areas, 2 bytes above
CellSize(area_number) == IF area_number <= 255 THEN 1 ELSE 2

\* number of cells: (int)pow(2, bit_mapping)
Cells(bits) == Pow2(bits)

\* the argument validation that opens the constructor, without the test of
\* HASH_number
Invalid_noHashTest(args) ==
    \/ args.bit_mapping <= 0 \/ args.bit_mapping > MAX_BIT_MAPPING
    \/ args.AREA_number <= 0 \/ args.AREA_number > MAX_AREA_NUMBER
    \/ Len(args.salt_path) = 0

\* the argument validation that opens the constructor: it throws
\* std::invalid_argument when one of the four tests holds
Invalid(args) ==
    \/ args.bit_mapping <= 0 \/ args.bit_mapping > MAX_BIT_MAPPING
    \/ args.AREA_number <= 0 \/ args.AREA_number > MAX_AREA_NUMBER
    \/ args.HASH_number <= 0 \/ args.HASH_number > MAX_HASH_NUMBER
    \/ Len(args.salt_path) = 0

\* this->cells = (int)pow(2, bit_mapping): pow is exact; the conversion of a
\* double above INT_MAX to int is undefined, and yields INT_MIN (x86) or
\* INT_MAX (saturating conversions)
CellCount(bits) ==
    IF bits <= 30 THEN { Pow2(bits) } ELSE { INT_MIN, INT_MAX }

\* this->size = this->cell_size*this->cells in int: the product when it fits,
\* the wrapped product (undefined behaviour) when it does not
ByteSize(width, count) ==
    IF width = 1 THEN count
    ELSE IF count > INT_MAX \div 2 THEN (count - Pow2(30)) * 2 + INT_MIN
    ELSE IF count < -Pow2(30) THEN ((count + Pow2(30)) * 2 + INT_MAX) + 1
    ELSE 2 * count

\* InitFilter with a loop that stops one byte early (the last byte keeps
\* whatever the allocation held)
InitFilter_short(sz) == [ i \in 0..(sz - 1) |-> IF i = sz - 1 THEN 1 ELSE 0 ]

\* the backing array, every byte set to 0
InitFilter(sz) == [ i \in 0..(sz - 1) |-> 0 ]

\* the per-area counter arrays, AREA_number + 1 entries set to 0
InitArea(area_number) == [ a \in 0..area_number |-> 0 ]

(* ----------------------------- cell codec ------------------------------ *)
\* GetCell that reads the two bytes of a cell in the other order
GetCell_swapped(f, index) ==
    CASE cell_size = 1 -> f[index]
      [] cell_size = 2 -> f[2 * index + 1] * 256 + f[2 * index]
      [] OTHER -> -1

\* SBF::GetCell on the array f
GetCell(f, index) ==
    CASE cell_size = 1 -> f[index]
      [] cell_size = 2 -> f[2 * index] * 256 + f[2 * index + 1]
      [] OTHER -> -1

\* the two stores of SetCell: (BYTE)area, or (BYTE)(area>>8) and (BYTE)area
WriteCell(f, index, area) ==
    CASE cell_size = 1 -> [ f EXCEPT ![index] = area % 256 ]
      [] cell_size = 2 -> [ f EXCEPT ![2 * index] = (area \div 256) % 256,
                                     ![2 * index + 1] = area % 256 ]
      [] OTHER -> f

\* the width test that opens each case of SetCell
Rejected(area) ==
    CASE cell_size = 1 -> (area > 255) \/ (area < 0)
      [] cell_size = 2 -> (area > 65535) \/ (area < 0)
      [] OTHER -> TRUE

(* --------------------------- index derivation -------------------------- *)
\* SBF::Hash: the digest of the selected family
Hash(buffer) == md[buffer]

\* x >> n for the unsigned 32-bit x = top * 2^24 + low24 (kept in two parts:
\* the value does not fit a signed 32-bit integer)
ShiftRight(top, low24, n) ==
    IF n >= 24 THEN top \div Pow2(n - 24)
    ELSE top * Pow2(24 - n) + low24 \div Pow2(n)

\* the loop body shared by Insert and Check: XOR with the salt, hash, keep
\* the first four bytes, reassemble them in host order, shift
DeriveIndex(string, k) ==
    LET buffer == XorBuffer(string, HASH_salt[k])
        digest32 == Hash(buffer)
    IN  IF BIG_end = 1
        THEN ShiftRight(digest32[1],
                        digest32[2] * Pow2(16) + digest32[3] * Pow2(8) + digest32[4],
                        MAX_BIT_MAPPING - bit_mapping)
        ELSE ShiftRight(digest32[4],
                        digest32[3] * Pow2(16) + digest32[2] * Pow2(8) + digest32[1],
                        MAX_BIT_MAPPING - bit_mapping)

(* ------------------------- the heap of the filter ---------------------- *)
\* the part of the state SetCell and Insert write
Heap == [ filter |-> filter, AREA_members |-> AREA_members,
          AREA_cells |-> AREA_cells,
          AREA_self_collisions |-> AREA_self_collisions,
          members |-> members, collisions |-> collisions, branch |-> branch ]

\* the per-area array the constructor allocates right after arr
NextArray(arr) ==
    CASE arr = "AREA_members" -> "AREA_cells"
      [] arr = "AREA_cells" -> "AREA_self_collisions"
      [] OTHER -> "none"

\* arr[i] += d with i outside 0..AREA_number: the word written belongs to no
\* array entry the program names, or to the array allocated next
OutOfBounds(h, arr, d) ==
    {h} \cup { [ h EXCEPT ![nxt][1] = @ + d ] :
                 nxt \in { NextArray(arr) } \ { "none" } }

\* arr[i] += d for a per-area array of AREA_number + 1 entries
AddTo(h, arr, i, d) ==
    IF i \in 0..AREA_number
    THEN { [ h EXCEPT ![arr][i] = @ + d ] }
    ELSE OutOfBounds(h, arr, d)

\* SetCell on an empty cell: write the label, AREA_cells[area]++
SetEmpty(h, index, area) ==
    AddTo([ h EXCEPT !.filter = WriteCell(h.filter, index, area),
                     !.branch = "empty" ],
          "AREA_cells", area, 1)

\* SetLower without AREA_cells[cell_value]--
SetLower_noDecrement(h, index, area, cell_value) ==
    AddTo([ h EXCEPT !.filter = WriteCell(h.filter, index, area),
                     !.branch = "lower",
                     !.collisions = @ + 1 ],
          "AREA_cells", area, 1)

\* SetLower that keeps the lower label in the cell
SetLower_keep(h, index, area, cell_value) ==
    { [ h EXCEPT !.branch = "lower", !.collisions = @ + 1 ] }

\* SetLower without AREA_cells[area]++
SetLower_noIncrement(h, index, area, cell_value) ==
    AddTo([ h EXCEPT !.filter = WriteCell(h.filter, index, area),
                     !.branch = "lower",
                     !.collisions = @ + 1 ],
          "AREA_cells", cell_value, -1)

\* SetCell on a cell that holds a lower label: overwrite it, collisions++,
\* AREA_cells[area]++, AREA_cells[cell_value]--
SetLower(h, index, area, cell_value) ==
    UNION { AddTo(g, "AREA_cells", cell_value, -1) :
              g \in AddTo([ h EXCEPT !.filter = WriteCell(h.filter, index, area),
                                     !.branch = "lower",
                                     !.collisions = @ + 1 ],
                          "AREA_cells", area, 1) }

\* SetEqual without AREA_self_collisions[area]++
SetEqual_noSelf(h, area) ==
    { [ h EXCEPT !.branch = "equal", !.collisions = @ + 1 ] }

\* SetCell on a cell that holds the same label: collisions++,
\* AREA_self_collisions[area]++
SetEqual(h, area) ==
    AddTo([ h EXCEPT !.branch = "equal", !.collisions = @ + 1 ],
          "AREA_self_collisions", area, 1)

\* SetGreater that writes the label over the greater one
SetGreater_overwrite(h, index, area) ==
    { [ h EXCEPT !.filter = WriteCell(h.filter, index, area),
                 !.branch = "greater", !.collisions = @ + 1 ] }

\* SetGreater without collisions++
SetGreater_noCollision(h, index, area) ==
    { [ h EXCEPT !.branch = "greater" ] }

\* SetGreater that also counts a self-collision
SetGreater_countsSelf(h, index, area) ==
    AddTo([ h EXCEPT !.branch = "greater", !.collisions = @ + 1 ],
          "AREA_self_collisions", area, 1)

\* SetCell on a cell that holds a greater label: collisions++
SetGreater(h, index, area) ==
    { [ h EXCEPT !.branch = "greater", !.collisions = @ + 1 ] }

\* SBF::SetCell: the outcomes of one round (one outcome unless an index is
\* out of bounds)
SetCell(h, index, area) ==
    LET cell_value == GetCell(h.filter, index)
    IN  IF Rejected(area) THEN { [ h EXCEPT !.branch = "rejected" ] }
        ELSE IF cell_value = 0 THEN SetEmpty(h, index, area)
        ELSE IF cell_value < area THEN SetLower(h, index, area, cell_value)
        ELSE IF cell_value = area THEN SetEqual(h, area)
        ELSE SetGreater(h, index, area)

\* CountMember run once per hash round instead of once per call
CountMember_perRound(h, area) ==
    AddTo([ h EXCEPT !.members = @ + HASH_number ],
          "AREA_members", area, HASH_number)

\* CountMember without AREA_members[area]++
CountMember_totalOnly(h, area) ==
    { [ h EXCEPT !.members = @ + 1 ] }

\* the tail of SBF::Insert: members++ and AREA_members[area]++
CountMember(h, area) ==
    AddTo([ h EXCEPT !.members = @ + 1 ], "AREA_members", area, 1)

\* SBF::Insert run to its return on the heap h, from round k: the loop of
\* SetCell rounds, then the tail
RECURSIVE InsertFrom(_, _, _, _)
InsertFrom(h, string, area, k) ==
    IF k = HASH_number THEN CountMember(h, area)
    ELSE UNION { InsertFrom(g, string, area, k + 1) :
                    g \in SetCell(h, DeriveIndex(string, k), area) }

InsertOf(h, string, area) == InsertFrom(h, string, area, 0)

\* Insert of the pair first, then Insert of the pair second
InsertBoth(h, first, second) ==
    UNION { InsertOf(g, second[1], second[2]) : g \in InsertOf(h, first[1], first[2]) }

\* the heap the constructor leaves
FreshHeap == [ filter |-> InitFilter(size),
               AREA_members |-> InitArea(AREA_number),
               AREA_cells |-> InitArea(AREA_number),
               AREA_self_collisions |-> InitArea(AREA_number),
               members |-> 0, collisions |-> 0, branch |-> "none" ]

(* -------------------------------- Check -------------------------------- *)
\* CheckStep that keeps the greater label
CheckStep_max(area, current_area) ==
    IF current_area = 0 THEN [ returns |-> TRUE, area |-> 0 ]
    ELSE IF area = 0 THEN [ returns |-> FALSE, area |-> current_area ]
    ELSE IF current_area > area THEN [ returns |-> FALSE, area |-> current_area ]
    ELSE [ returns |-> FALSE, area |-> area ]

\* one round of the loop of SBF::Check on the label read from the cell
CheckStep(area, current_area) ==
    IF current_area = 0 THEN [ returns |-> TRUE, area |-> 0 ]
    ELSE IF area = 0 THEN [ returns |-> FALSE, area |-> current_area ]
    ELSE IF current_area < area THEN [ returns |-> FALSE, area |-> current_area ]
    ELSE [ returns |-> FALSE, area |-> area ]

\* SBF::Check run to its return on the array f, from round k
RECURSIVE CheckFrom(_, _, _, _)
CheckFrom(f, string, k, area) ==
    IF k = HASH_number THEN area
    ELSE LET r == CheckStep(area, GetCell(f, DeriveIndex(string, k)))
         IN  IF r.returns THEN r.area ELSE CheckFrom(f, string, k + 1, r.area)

CheckOf(f, string) == CheckFrom(f, string, 0, 0)

(* ------------------------------ statistics ----------------------------- *)
\* area_cells[lo] + ... + area_cells[hi], summed by halves
RECURSIVE SumRange(_, _, _)
SumRange(area_cells, lo, hi) ==
    IF lo > hi THEN 0
    ELSE IF lo = hi THEN area_cells[lo]
    ELSE LET mid == (lo + hi) \div 2
         IN  SumRange(area_cells, lo, mid) + SumRange(area_cells, mid + 1, hi)

\* the loop of GetFilterSparsity and GetFilterFpp: AREA_cells[1] + ... +
\* AREA_cells[i]
SumCells(area_cells, i) == SumRange(area_cells, 1, i)

RECURSIVE Power(_, _)
Power(x, n) == IF n = 0 THEN 1 ELSE x * Power(x, n - 1)

\* SBF::GetFilterSparsity on the counters area_cells: 1 - sum/cells, as the
\* fraction (cells - sum) / cells
GetFilterSparsity(area_cells) ==
    LET sum == SumCells(area_cells, AREA_number)
    IN  [ num |-> cells - sum, den |-> cells ]

\* SBF::GetFilterFpp on the counters area_cells: (c/cells)^HASH_number, as
\* the fraction c^HASH_number / cells^HASH_number
GetFilterFpp(area_cells) ==
    LET c == SumCells(area_cells, AREA_number)
    IN  [ num |-> Power(c, HASH_number), den |-> Power(cells, HASH_number) ]

\* SBF::GetAreaMembers on the heap h
GetAreaMembers(h, area) == h.AREA_members[area]

\* GetAreaEmersion that tests AREA_cells for the sentinel
GetAreaEmersion_testsCells(h, area) ==
    IF h.AREA_cells[area] = 0 \/ HASH_number = 0
    THEN [ divides |-> FALSE, num |-> -1, den |-> 1 ]
    ELSE [ divides |-> TRUE,
           num |-> h.AREA_cells[area],
           den |-> h.AREA_members[area] * HASH_number
                     - h.AREA_self_collisions[area] ]

\* SBF::GetAreaEmersion on the heap h: the sentinel -1 without a division,
\* or the quotient a/b as the fraction num / den
GetAreaEmersion(h, area) ==
    IF h.AREA_members[area] = 0 \/ HASH_number = 0
    THEN [ divides |-> FALSE, num |-> -1, den |-> 1 ]
    ELSE [ divides |-> TRUE,
           num |-> h.AREA_cells[area],
           den |-> h.AREA_members[area] * HASH_number
                     - h.AREA_self_collisions[area] ]

\* (1 - 1/cells)^exponent, the power every a-priori estimate starts from:
\* kept as its base and exponent
EmptyCellPower(exponent) ==
    [ num |-> cells - 1, den |-> cells, exponent |-> exponent ]

\* SBF::GetFilterAPrioriFpp on the heap h: (1 - (1-1/cells)^(k*n))^k
GetFilterAPrioriFpp(h) ==
    [ one_minus |-> EmptyCellPower(HASH_number * h.members),
      exponent |-> HASH_number ]

\* SBF::GetExpectedAreaEmersion on the heap h: (1-1/cells)^(k*nfill), nfill
\* the members of the areas above area
GetExpectedAreaEmersion(h, area) ==
    EmptyCellPower(HASH_number * SumRange(h.AREA_members, area + 1, AREA_number))

\* the effect of a statistic on the heap of the filter and the derived
\* arrays it stores to; the entries written are i = AREA_number, ..., 1
Derives(h, arrays) == [ heap |-> h, wrote |-> arrays ]

\* SetAreaFpp that stores p to AREA_cells[i] instead of AREA_fpp[i]
SetAreaFpp_intoCells(h) ==
    Derives([ h EXCEPT !.AREA_cells =
                [ a \in 0..AREA_number |-> IF a = 0 THEN @[a] ELSE 0 ] ],
            { })

\* SBF::SetAreaFpp: reads AREA_cells, stores AREA_fpp[i]
SetAreaFpp(h) == Derives(h, { "AREA_fpp" })

\* SBF::SetAPrioriAreaFpp: reads AREA_members, stores AREA_a_priori_fpp[i]
SetAPrioriAreaFpp(h) == Derives(h, { "AREA_a_priori_fpp" })

\* SBF::SetAPrioriAreaIsep: reads AREA_members, stores AREA_a_priori_isep[i],
\* AREA_a_priori_safep[i] and safeness
SetAPrioriAreaIsep(h) ==
    Derives(h, { "AREA_a_priori_isep", "AREA_a_priori_safep", "safeness" })

\* SBF::SetAreaIsep: reads GetAreaEmersion(i), stores AREA_isep[i]
SetAreaIsep(h) == Derives(h, { "AREA_isep" })

\* SBF::SetExpectedAreaCells: reads AREA_members, stores
\* AREA_expected_cells[i]
SetExpectedAreaCells(h) == Derives(h, { "AREA_expected_cells" })

\* the operations of the statistics engine
StatisticsOps ==
    { "GetAreaMembers", "GetFilterSparsity", "GetFilterFpp",
      "GetFilterAPrioriFpp", "GetExpectedAreaEmersion", "GetAreaEmersion",
      "SetAreaFpp", "SetAPrioriAreaFpp", "SetAPrioriAreaIsep", "SetAreaIsep",
      "SetExpectedAreaCells" }

\* the heap and the derived arrays after the statistic op; the six Get
\* operations are const methods that return a value and store nothing
Statistic(op, h) ==
    CASE op = "SetAreaFpp" -> SetAreaFpp(h)
      [] op = "SetAPrioriAreaFpp" -> SetAPrioriAreaFpp(h)
      [] op = "SetAPrioriAreaIsep" -> SetAPrioriAreaIsep(h)
      [] op = "SetAreaIsep" -> SetAreaIsep(h)
      [] op = "SetExpectedAreaCells" -> SetExpectedAreaCells(h)
      [] OTHER -> Derives(h, { })

(* ------------------------------- state --------------------------------- *)
\* the frame of a call: its arguments string and area (in Check, area is the
\* local that holds the lowest label read so far), the loop counter k, and
\* what the call follows: `follows` says that the call that completed just
\* before was an Insert of the same string (and, for an Insert, of the same
\* label); for a Check that follows, `after` is the label of that Insert and
\* `clean` says that none of the cells of the string held a label greater
\* than `after` when that Insert began
NoFrame == [ string |-> <<>>, area |-> 0, k |-> 0,
             follows |-> FALSE, clean |-> FALSE, after |-> 0,
             allocated |-> {} ]

\* the arrays Insert and Check allocate with new[] for the length of the
\* call: the XOR buffer and the digest
Temporaries == { "buffer", "digest" }

\* delete[] of the arrays named
Release(allocated, names) == allocated \ names

\* the record of the last completed call: an Insert with its arguments, or a
\* Check with the value it returned; leaked holds the arrays the call
\* allocated and did not release
NoCall == [ op |-> "none", string |-> <<>>, area |-> 0, ret |-> 0,
            follows |-> FALSE, clean |-> FALSE, leaked |-> {} ]

\* no cell of string holds a label greater than area
NoGreater(string, area) ==
    \A k \in 0..(HASH_number - 1) :
        GetCell(filter, DeriveIndex(string, k)) <= area

\* the entry of a per-area array for a label, 0 for a label outside the array
At(arr, area) == IF area \in DOMAIN arr THEN arr[area] ELSE 0

\* the state Insert(string, size, area) is entered in: the cells, the two
\* filter-wide counters and the counters of the area
Snapshot(area) == [ filter |-> filter,
                    members |-> members, collisions |-> collisions,
                    area |-> area,
                    area_members |-> At(AREA_members, area),
                    area_self_collisions |-> At(AREA_self_collisions, area) ]

\* the labels Insert is meant for
ValidLabel(area) == area \in 1..AREA_number

\* the labels handed to Insert within its contract: the lowest and the highest
Labels == { 1, AREA_number }

\* the labels handed to Insert outside its contract: negative, 0, just above
\* AREA_number, and the first value that does not fit the cell
BadLabels == { -1, 0, AREA_number + 1, Pow2(8 * cell_size) }

Init ==
    /\ bit_mapping \in 1..MaxBits
    /\ HASH_number \in 1..MaxHash
    /\ AREA_number \in AreaNumbers
    /\ BIG_end \in {0, 1}
    /\ cell_size = CellSize(AREA_number)
    /\ HASH_salt \in [ 0..(HASH_number - 1) -> [ 1..LongestElement -> SaltBytes ] ]
    /\ md \in [ Buffers -> Digests ]
    /\ cells = Cells(bit_mapping)
    /\ size = cell_size * cells
    /\ filter = InitFilter(size)
    /\ AREA_members = InitArea(AREA_number)
    /\ AREA_cells = InitArea(AREA_number)
    /\ AREA_self_collisions = InitArea(AREA_number)
    /\ members = 0
    /\ collisions = 0
    /\ pc = "idle"
    /\ frame = NoFrame
    /\ branch = "none"
    /\ entry = [ filter |-> InitFilter(size),
                 members |-> 0, collisions |-> 0, area |-> -1,
                 area_members |-> 0, area_self_collisions |-> 0 ]
    /\ last = NoCall
    /\ bad = 0
    /\ ascending = TRUE
    /\ precondition = TRUE

(* ------------------------------- Insert -------------------------------- *)
\* the call of Insert(string, size, area)
InsertCall(string, area) ==
    /\ pc = "idle"
    /\ members < MaxInserts
    /\ ValidLabel(area) \/ bad < MaxBad
    /\ pc' = "Insert"
    /\ frame' = [ string |-> string, area |-> area, k |-> 0,
                  follows |-> /\ last.op = "Insert"
                              /\ last.string = string
                              /\ last.area = area,
                  clean |-> NoGreater(string, area),
                  after |-> 0,
                  allocated |-> Temporaries ]
    /\ entry' = Snapshot(area)
    /\ bad' = IF ValidLabel(area) THEN bad ELSE bad + 1
    /\ ascending' = (ascending /\ entry.area <= area)
    /\ precondition' = (precondition /\ 0 < area /\ ~Rejected(area))
    /\ last' = NoCall
    /\ UNCHANGED << filter, AREA_members, AREA_cells, AREA_self_collisions,
                    members, collisions, branch >>
    /\ UNCHANGED config

\* one iteration of the loop of Insert: derive the index, SetCell
InsertRound ==
    /\ pc = "Insert"
    /\ frame.k < HASH_number
    /\ \E h \in SetCell(Heap, DeriveIndex(frame.string, frame.k), frame.area) :
          /\ filter' = h.filter
          /\ AREA_members' = h.AREA_members
          /\ AREA_cells' = h.AREA_cells
          /\ AREA_self_collisions' = h.AREA_self_collisions
          /\ collisions' = h.collisions
          /\ branch' = h.branch
    /\ frame' = [ frame EXCEPT !.k = @ + 1 ]
    /\ UNCHANGED << members, pc, entry, last, bad, ascending, precondition >>
    /\ UNCHANGED config

\* the end of Insert: the loop is over, the member counters are incremented
InsertReturn ==
    /\ pc = "Insert"
    /\ frame.k = HASH_number
    /\ \E h \in CountMember(Heap, frame.area) :
          /\ filter' = h.filter
          /\ AREA_members' = h.AREA_members
          /\ AREA_cells' = h.AREA_cells
          /\ AREA_self_collisions' = h.AREA_self_collisions
          /\ members' = h.members
    /\ pc' = "idle"
    /\ last' = [ op |-> "Insert", string |-> frame.string, area |-> frame.area,
                 ret |-> 0, follows |-> frame.follows, clean |-> frame.clean,
                 leaked |-> Release(frame.allocated, Temporaries) ]
    /\ frame' = NoFrame
    /\ UNCHANGED << collisions, branch, entry, bad, ascending, precondition >>
    /\ UNCHANGED config

(* -------------------------------- Check -------------------------------- *)
\* the call of Check(string, size)
CheckCall(string) ==
    /\ pc = "idle"
    /\ pc' = "Check"
    /\ LET follows == last.op = "Insert" /\ last.string = string
       IN  frame' = [ string |-> string, area |-> 0, k |-> 0,
                      follows |-> follows,
                      clean |-> follows /\ last.clean,
                      after |-> IF follows THEN last.area ELSE 0,
                      allocated |-> Temporaries ]
    /\ last' = NoCall
    /\ UNCHANGED << filter, AREA_members, AREA_cells, AREA_self_collisions,
                    members, collisions, branch, entry, bad, ascending, precondition >>
    /\ UNCHANGED config

\* the record of a completed Check: the value it returned and the arrays it
\* allocated and did not release
Checked(ret, leaked) == [ op |-> "Check", string |-> <<>>, area |-> 0,
                          ret |-> ret, follows |-> FALSE, clean |-> FALSE,
                          leaked |-> leaked ]

\* one iteration of the loop of Check: it returns 0 on an empty cell
CheckRound ==
    /\ pc = "Check"
    /\ frame.k < HASH_number
    /\ LET current_area == GetCell(filter, DeriveIndex(frame.string, frame.k))
           r == CheckStep(frame.area, current_area)
       IN  IF r.returns
           THEN /\ pc' = "idle"
                /\ last' = Checked(r.area, frame.allocated)
                /\ frame' = NoFrame
           ELSE /\ pc' = pc
                /\ last' = last
                /\ frame' = [ frame EXCEPT !.k = @ + 1, !.area = r.area ]
    /\ UNCHANGED << filter, AREA_members, AREA_cells, AREA_self_collisions,
                    members, collisions, branch, entry, bad, ascending, precondition >>
    /\ UNCHANGED config

\* the return of Check after the last round
CheckReturn ==
    /\ pc = "Check"
    /\ frame.k = HASH_number
    /\ pc' = "idle"
    /\ last' = Checked(frame.area, Release(frame.allocated, Temporaries))
    /\ frame' = NoFrame
    /\ UNCHANGED << filter, AREA_members, AREA_cells, AREA_self_collisions,
                    members, collisions, branch, entry, bad, ascending, precondition >>
    /\ UNCHANGED config

Next ==
    \/ \E string \in Elements, area \in Labels : InsertCall(string, area)
    \/ InsertRound
    \/ InsertReturn
    \/ \E string \in Elements : CheckCall(string)
    \/ CheckRound
    \/ CheckReturn

Spec == Init /\ [][Next]_vars

\* the same program with callers that also break the contract of Insert
NextAny ==
    \/ Next
    \/ \E string \in Elements, area \in BadLabels : InsertCall(string, area)

SpecAny == Init /\ [][NextAny]_vars

(* ------------------------------ statistics ----------------------------- *)
\* a call of one operation of the statistics engine, taken after the
\* construction or after an Insert, as main does (the counters it reads
\* change nowhere else)
Statistics(op) ==
    /\ pc = "idle"
    /\ last.op \in { "none", "Insert" }
    /\ LET h == Statistic(op, Heap).heap
       IN  /\ filter' = h.filter
           /\ AREA_members' = h.AREA_members
           /\ AREA_cells' = h.AREA_cells
           /\ AREA_self_collisions' = h.AREA_self_collisions
           /\ members' = h.members
           /\ collisions' = h.collisions
    /\ last' = [ NoCall EXCEPT !.op = "Statistics" ]
    /\ UNCHANGED << pc, frame, branch, entry, bad, ascending, precondition >>
    /\ UNCHANGED config

\* the same program with a caller that also takes statistics
NextStatistics ==
    \/ Next
    \/ \E op \in StatisticsOps : Statistics(op)

SpecStatistics == Init /\ [][NextStatistics]_vars

(* ----------------------------- construction ---------------------------- *)
\* the state before the constructor runs: no field is set and nothing is
\* allocated; frame holds the arguments of the constructor
InitNew ==
    /\ pc = "new"
    /\ frame \in [ bit_mapping : BitMappings, HASH_family : HashFamilies,
                   HASH_number : HashNumbers, AREA_number : AreaArguments,
                   salt_path : SaltPaths ]
    /\ filter = << >>
    /\ HASH_salt = << >>
    /\ md = << >>
    /\ AREA_members = << >>
    /\ AREA_cells = << >>
    /\ AREA_self_collisions = << >>
    /\ bit_mapping = 0 /\ cells = 0 /\ cell_size = 0 /\ size = 0
    /\ HASH_number = 0 /\ AREA_number = 0 /\ BIG_end = 0
    /\ members = 0
    /\ collisions = 0
    /\ branch = "none"
    /\ entry = [ filter |-> << >>, members |-> 0, collisions |-> 0,
                 area |-> -1, area_members |-> 0, area_self_collisions |-> 0 ]
    /\ last = NoCall
    /\ bad = 0
    /\ ascending = TRUE
    /\ precondition = TRUE

\* the filters whose cells, salts and counters the model enumerates; the
\* constructor of a larger one is followed up to the allocation of the filter
Enumerated(args) ==
    /\ args.bit_mapping <= MaxBits
    /\ args.HASH_number <= MaxHash
    /\ args.AREA_number \in AreaNumbers

\* the constructor SBF::SBF: validation, endianness, cell size, salts, cells,
\* size, allocation and zeroing of the filter and of the per-area counters
Construct ==
    /\ pc = "new"
    /\ UNCHANGED << branch, last, bad, ascending, precondition >>
    /\ IF Invalid(frame)
       THEN /\ pc' = "invalid_argument"
            /\ UNCHANGED << filter, AREA_members, AREA_cells,
                            AREA_self_collisions, members, collisions,
                            frame, entry >>
            /\ UNCHANGED config
       ELSE \E count \in CellCount(frame.bit_mapping) :
            LET width == CellSize(frame.AREA_number)
                bytes == ByteSize(width, count)
            IN  /\ BIG_end' \in {0, 1}
                /\ cell_size' = width
                /\ HASH_number' = frame.HASH_number
                /\ cells' = count
                /\ bit_mapping' = frame.bit_mapping
                /\ size' = bytes
                /\ members' = 0
                /\ collisions' = 0
                /\ IF bytes >= 0 /\ Enumerated(frame)
                   THEN /\ pc' = "idle"
                        /\ HASH_salt' \in [ 0..(frame.HASH_number - 1) ->
                                              [ 1..LongestElement -> SaltBytes ] ]
                        /\ md' \in [ Buffers -> Digests ]
                        /\ filter' = InitFilter(bytes)
                        /\ AREA_number' = frame.AREA_number
                        /\ AREA_members' = InitArea(frame.AREA_number)
                        /\ AREA_cells' = InitArea(frame.AREA_number)
                        /\ AREA_self_collisions' = InitArea(frame.AREA_number)
                        /\ frame' = NoFrame
                        /\ entry' = [ filter |-> InitFilter(bytes),
                                      members |-> 0, collisions |-> 0,
                                      area |-> -1, area_members |-> 0,
                                      area_self_collisions |-> 0 ]
                   ELSE \* new BYTE[size] throws on a negative size and may
                        \* throw on a large one
                        /\ pc' \in IF bytes < 0 THEN { "bad_alloc" }
                                    ELSE { "constructed", "bad_alloc" }
                        /\ AREA_number' = IF pc' = "constructed"
                                          THEN frame.AREA_number ELSE AREA_number
                        /\ UNCHANGED << filter, HASH_salt, md, AREA_members,
                                        AREA_cells, AREA_self_collisions,
                                        frame, entry >>

NextNew ==
    \/ Construct
    \/ Next

SpecNew == InitNew /\ [][NextNew]_vars

TypeOK ==
    /\ pc \in {"idle", "Insert", "Check",
               "new", "invalid_argument", "bad_alloc", "constructed"}
    /\ pc \in {"idle", "Insert", "Check"} => DOMAIN filter = 0..(size - 1)
    /\ \A i \in DOMAIN filter : filter[i] \in 0..255
    /\ members \in 0..MaxInserts

(* ------------------------------ properties ----------------------------- *)
\* the labels the cells of string hold, one per hash round
LabelsRead(f, string) ==
    { GetCell(f, DeriveIndex(string, k)) : k \in 0..(HASH_number - 1) }

Minimum(S) == CHOOSE x \in S : \A y \in S : x <= y

\* the number of cells of f that hold label a
CellsHolding(f, a) == Cardinality({ i \in 0..(cells - 1) : GetCell(f, i) = a })

\* Check returns in this step
CheckReturns == pc = "Check" /\ pc' = "idle"

\* C1: Insert(E, A) with a valid label A, entered when none of the cells of E
\* holds a label greater than A, and immediately followed by Check(E),
\* makes that Check return A.
InsertThenCheck ==
    [][ (CheckReturns /\ frame.follows /\ frame.clean /\ ValidLabel(frame.after))
        => (last'.op = "Check" /\ last'.ret = frame.after) ]_vars

\* the loop of a Check is over with the label of the Insert just before it,
\* one cell of the element having held a lower label when that Insert began
InsertThenCheckReached ==
    /\ pc = "Check"
    /\ frame.k = HASH_number
    /\ frame.follows
    /\ frame.clean
    /\ frame.area = frame.after
    /\ \E x \in LabelsRead(entry.filter, frame.string) : 0 < x /\ x < frame.after

\* C2: Check(E) returns 0 if one of its HASH_number rounds reads an empty
\* cell, and otherwise the lowest of the labels its rounds read.
CheckReturnsMinimum ==
    [][ CheckReturns
        => /\ last'.op = "Check"
           /\ last'.ret = IF 0 \in LabelsRead(filter, frame.string) THEN 0
                          ELSE Minimum(LabelsRead(filter, frame.string)) ]_vars

\* the loop of a Check is over, its rounds have read two different labels and
\* the lower one is about to be returned
CheckReturnsMinimumReached ==
    /\ pc = "Check"
    /\ frame.k = HASH_number
    /\ frame.area > 0
    /\ \E x \in LabelsRead(filter, frame.string) : x > frame.area

\* a filter no Insert has been called on
Fresh == members = 0 /\ pc # "Insert"

\* C3: a freshly constructed filter has every cell equal to 0, both
\* filter-wide counters and the three counters of every area equal to 0, and
\* Check returns 0 on it for every element.
FreshFilterIsEmpty ==
    Fresh =>
      /\ \A i \in 0..(cells - 1) : GetCell(filter, i) = 0
      /\ \A i \in 0..(size - 1) : filter[i] = 0
      /\ members = 0
      /\ collisions = 0
      /\ \A a \in 0..AREA_number :
            AREA_members[a] = 0 /\ AREA_cells[a] = 0 /\ AREA_self_collisions[a] = 0
      /\ \A e \in Elements : CheckOf(filter, e) = 0
      /\ last.op = "Check" => last.ret = 0

\* a Check completed on a fresh filter of 2-byte cells
FreshFilterChecked ==
    Fresh /\ pc = "idle" /\ last.op = "Check" /\ cell_size = 2

\* a hash round of Insert is about to run SetCell
AtRound == pc = "Insert" /\ frame.k < HASH_number

\* the cell the round about to run maps to
RoundIndex == DeriveIndex(frame.string, frame.k)

\* 1 if the condition holds, else 0
Bit(b) == IF b THEN 1 ELSE 0

\* the collision table of SetCell applied to the cell `index` that holds
\* `old`, as a relation between the state before and after the round
TableApplied(index, old, area) ==
    /\ GetCell(filter', index) = (IF old = 0 \/ old < area THEN area ELSE old)
    /\ \A j \in 0..(cells - 1) :
          j # index => GetCell(filter', j) = GetCell(filter, j)
    /\ collisions' = collisions + Bit(old # 0)
    /\ \A a \in 0..AREA_number :
          /\ AREA_cells'[a] = AREA_cells[a]
                              + Bit(a = area /\ (old = 0 \/ old < area))
                              - Bit(a = old /\ 0 < old /\ old < area)
          /\ AREA_self_collisions'[a] = AREA_self_collisions[a]
                                        + Bit(a = area /\ old = area /\ old # 0)
          /\ AREA_members'[a] = AREA_members[a]
    /\ members' = members

\* C4: for both cell widths and every label that fits the width, one SetCell
\* round applies the collision table exactly, as read back by GetCell, and
\* changes no other cell and no other counter.
SetCellAppliesTable ==
    [][ (AtRound /\ ~Rejected(frame.area))
        => TableApplied(RoundIndex, GetCell(filter, RoundIndex), frame.area) ]_vars

\* C5: after any sequence of Inserts with labels in [1, AREA_number], for
\* every area a, AREA_cells[a] is the number of cells that hold label a.
CellsUsedIsOccupancy ==
    LET held == { GetCell(filter, i) : i \in 0..(cells - 1) }
    IN  \A a \in 1..AREA_number :
           AREA_cells[a] = IF a \in held THEN CellsHolding(filter, a) ELSE 0

\* a round has just overwritten the only cell of a lower label, whose count
\* is back to 0
CellsUsedDecremented ==
    /\ branch = "lower"
    /\ \E a \in 1..AREA_number :
          AREA_members[a] > 0 /\ AREA_cells[a] = 0 /\ CellsHolding(filter, a) = 0

\* C6 as stated: a cell that holds a label is never changed by a later round
\* that carries a higher label.
LowerLabelKeepsCell ==
    [][ AtRound =>
          LET old == GetCell(filter, RoundIndex)
          IN  (old > 0 /\ frame.area > old)
              => GetCell(filter', RoundIndex) = old ]_vars

\* C6 as amended: a cell that holds label a is overwritten with b by a later
\* round that carries a higher label b > a, and is left unchanged by a later
\* round that carries a label b <= a.
HigherLabelTakesCell ==
    [][ AtRound =>
          LET old == GetCell(filter, RoundIndex)
          IN  old > 0 => GetCell(filter', RoundIndex) =
                            (IF frame.area > old THEN frame.area ELSE old) ]_vars

\* a round has just replaced a lower label by the label it carries
HigherLabelWritten ==
    /\ pc = "Insert"
    /\ frame.k > 0
    /\ branch = "lower"
    /\ GetCell(filter, DeriveIndex(frame.string, frame.k - 1)) = frame.area

\* C7: the cells start at 0, the value of a cell never decreases from one
\* state to the next, and a cell changes only in a SetCell round on that
\* cell, to the label the round carries.
CellsOnlyRise ==
    /\ \A i \in 0..(cells - 1) : GetCell(filter, i) = 0
    /\ [][ \A i \in 0..(cells - 1) :
              /\ GetCell(filter', i) >= GetCell(filter, i)
              /\ GetCell(filter', i) # GetCell(filter, i)
                 => /\ AtRound
                    /\ i = RoundIndex
                    /\ GetCell(filter', i) = frame.area ]_vars

\* a round that carried a label lower than the one in its cell has left the
\* cell as it was (labels inserted in descending order)
GreaterLabelKept ==
    /\ pc = "Insert"
    /\ frame.k > 0
    /\ branch = "greater"
    /\ GetCell(filter, DeriveIndex(frame.string, frame.k - 1)) > frame.area

\* C8: while the labels of the successive Insert calls are non-decreasing, no
\* SetCell round takes the '>' branch, and every increment of collisions is
\* made by the '<' branch or the '==' branch.
AscendingNeverGreater ==
    [][ ascending' =>
          /\ branch' # "greater"
          /\ collisions' # collisions
             => (branch' \in {"lower", "equal"} /\ collisions' = collisions + 1)
      ]_vars

\* labels inserted in ascending order, the second Insert colliding with the
\* lower label of the first
AscendingCollided ==
    /\ ascending
    /\ pc = "idle"
    /\ members = 2
    /\ entry.area > 1
    /\ AREA_members[1] = 1
    /\ collisions > 0
    /\ branch = "lower"

\* C9: Insert(E, A) adds exactly 1 to members and to AREA_members[A], at its
\* return and not in its hash rounds, and changes AREA_members of no other
\* area.
MembersOncePerInsert ==
    /\ members = 0 /\ \A b \in 0..AREA_number : AREA_members[b] = 0
    /\ [][ /\ pc' = "Insert"
              => (members' = entry'.members
                  /\ AREA_members'[frame'.area] = entry'.area_members)
           /\ (pc' = "idle" /\ last'.op = "Insert")
              => (members' = entry'.members + 1
                  /\ AREA_members'[last'.area] = entry'.area_members + 1)
           /\ AREA_members' # AREA_members
              => (/\ pc = "Insert"
                  /\ pc' = "idle"
                  /\ AREA_members' = [ AREA_members EXCEPT ![frame.area] = @ + 1 ])
         ]_vars

\* an Insert whose two rounds hit the same cell (the second collided with the
\* first) has returned
InsertWithCollidingRounds ==
    /\ pc = "idle"
    /\ last.op = "Insert"
    /\ HASH_number = 2
    /\ collisions > entry.collisions
    /\ members = entry.members + 1
    /\ Cardinality({ DeriveIndex(last.string, k) : k \in 0..(HASH_number - 1) }) = 1

\* C10: with labels inserted in non-decreasing order, Insert(E, A) called
\* right after Insert(E, A) leaves every cell and the result of Check(E) as
\* they were, and adds exactly HASH_number to AREA_self_collisions[A] and to
\* collisions.
RepeatedInsert ==
    (pc = "idle" /\ last.op = "Insert" /\ last.follows /\ ascending)
    => /\ filter = entry.filter
       /\ CheckOf(filter, last.string) = CheckOf(entry.filter, last.string)
       /\ CheckOf(filter, last.string) = last.area
       /\ AREA_self_collisions[last.area]
            = entry.area_self_collisions + HASH_number
       /\ collisions = entry.collisions + HASH_number

\* the second of two Inserts of the same element and label has returned, on
\* a filter with 2 hash rounds
RepeatedInsertReached ==
    /\ pc = "idle"
    /\ last.op = "Insert"
    /\ last.follows
    /\ ascending
    /\ HASH_number = 2
    /\ AREA_members[last.area] = 2
    /\ AREA_self_collisions[last.area] >= 2

\* C11: after any sequence of Inserts whose labels are positive and fit the
\* active cell width, every cell holds 0 or a label in [1, AREA_number], and
\* Check never returns a value outside [0, AREA_number].
CellsHoldAreaLabels ==
    precondition =>
      /\ \A i \in 0..(cells - 1) : GetCell(filter, i) \in 0..AREA_number
      /\ last.op = "Check" => last.ret \in 0..AREA_number

\* an Insert is running with a label that does not fit the active cell width
RejectedInsert == pc = "Insert" /\ Rejected(frame.area)

\* C12: an Insert whose label does not fit the active cell width writes no
\* cell and changes no AREA_cells, AREA_self_collisions or AREA_members entry
\* of an area in 1..AREA_number, and does not change collisions.
RejectedInsertCorruptsNothing ==
    [][ RejectedInsert
        => /\ filter' = filter
           /\ collisions' = collisions
           /\ \A a \in 1..AREA_number :
                 /\ AREA_cells'[a] = AREA_cells[a]
                 /\ AREA_self_collisions'[a] = AREA_self_collisions[a]
                 /\ AREA_members'[a] = AREA_members[a] ]_vars

\* the constructor runs in this step
Constructing == pc = "new"

\* the constructor has returned an object
Constructed == pc \in { "idle", "Insert", "Check", "constructed" }

\* no salt, no cell array and no counter exists
NothingCreated ==
    /\ HASH_salt = << >>
    /\ filter = << >>
    /\ AREA_members = << >>
    /\ AREA_cells = << >>
    /\ AREA_self_collisions = << >>
    /\ cells = 0
    /\ size = 0

\* the ranges the claim gives for the arguments
ArgumentsInRange(args) ==
    /\ args.bit_mapping \in 1..32
    /\ args.AREA_number \in 1..65535
    /\ args.HASH_number \in 1..1024
    /\ args.salt_path # ""

\* C13: construction succeeds only if bit_mapping is in [1,32], AREA_number
\* in [1,65535], HASH_number in [1,1024] and the salt path is non-empty,
\* whatever HASH_family is; otherwise it fails with the configuration error
\* before any salt, cell array or counter is created; arguments in range
\* never raise the configuration error.
ConstructionValidated ==
    [][ Constructing
        => /\ Constructed' => ArgumentsInRange(frame)
           /\ ~ArgumentsInRange(frame)
                => (pc' = "invalid_argument" /\ NothingCreated')
           /\ ArgumentsInRange(frame) => pc' # "invalid_argument" ]_vars

\* the constructor has thrown on a HASH_number just above the limit, every
\* other argument being in range
ConstructionRejected ==
    /\ pc = "invalid_argument"
    /\ frame.HASH_number = 1025
    /\ ArgumentsInRange([ frame EXCEPT !.HASH_number = 1 ])
    /\ frame.HASH_family \notin { 1, 4, 5 }

\* C14: for every accepted bit_mapping and both cell sizes, the constructed
\* filter has exactly 2^bit_mapping cells and cell_size * 2^bit_mapping
\* bytes, both held in 32-bit signed integers without overflow.
ExactCellCount ==
    Constructed =>
      /\ bit_mapping < 31
      /\ cells = Pow2(bit_mapping)
      /\ cells <= INT_MAX \div cell_size
      /\ size = cell_size * cells

\* an Insert has just returned
AfterInsert == pc = "idle" /\ last.op = "Insert"

\* C15: after any sequence of Inserts with labels in [1, AREA_number], for
\* every area a, AREA_cells[a] <= AREA_members[a] * HASH_number.
CellsUsedBounded ==
    AfterInsert =>
      \A a \in 1..AREA_number : AREA_cells[a] <= AREA_members[a] * HASH_number

\* two Inserts have returned on a filter with 2 hash rounds: one label holds
\* a cell for each of its rounds, the other holds fewer
CellsUsedBoundReached ==
    /\ AfterInsert
    /\ HASH_number = 2
    /\ AREA_cells[1] < AREA_members[1] * HASH_number
    /\ AREA_cells[AREA_number] = AREA_members[AREA_number] * HASH_number
    /\ AREA_members[1] = 1

\* the sum of the counters area_cells and the sparsity computed from them
\* are within their ranges
SparsityBounded(area_cells) ==
    LET sparsity == GetFilterSparsity(area_cells)
    IN  /\ 0 <= SumCells(area_cells, AREA_number)
        /\ SumCells(area_cells, AREA_number) <= cells
        /\ 0 <= sparsity.num
        /\ sparsity.num <= sparsity.den

\* C16: in every state, 0 <= AREA_cells[1] + ... + AREA_cells[AREA_number]
\* <= cells, so the sparsity GetFilterSparsity returns lies in [0, 1]: it
\* holds of the constructed filter and every step that changes a counter
\* keeps it.
SparsityInUnitInterval ==
    /\ SparsityBounded(AREA_cells)
    /\ [][ AREA_cells' # AREA_cells => SparsityBounded(AREA_cells') ]_vars

\* every cell of the filter is taken (sparsity 0) after a collision
FilterFull ==
    /\ SumCells(AREA_cells, AREA_number) = cells
    /\ GetFilterSparsity(AREA_cells).num = 0
    /\ collisions > 0

\* C17: the total occupancy AREA_cells[1] + ... + AREA_cells[AREA_number]
\* never decreases, so the sparsity never increases and the filter fpp
\* (occupancy/cells)^HASH_number never decreases.
OccupancyNeverDecreases ==
    [][ AREA_cells' # AREA_cells
        => /\ SumCells(AREA_cells', AREA_number) >= SumCells(AREA_cells, AREA_number)
           /\ GetFilterSparsity(AREA_cells').num <= GetFilterSparsity(AREA_cells).num
           /\ GetFilterFpp(AREA_cells').num >= GetFilterFpp(AREA_cells).num
           /\ GetFilterFpp(AREA_cells').den = GetFilterFpp(AREA_cells).den ]_vars

\* a round of Insert has overwritten a lower label: the count of one area
\* fell and the total occupancy is the number of non-empty cells
OverwriteKeptOccupancy ==
    /\ pc = "Insert"
    /\ branch = "lower"
    /\ AREA_cells[1] < CellsHolding(entry.filter, 1)
    /\ entry.area = AREA_number
    /\ SumCells(AREA_cells, AREA_number)
         = Cardinality({ i \in 0..(cells - 1) : GetCell(filter, i) # 0 })

\* the cell array and the counters of the filter
Core == << filter, AREA_members, AREA_cells, AREA_self_collisions,
           members, collisions >>

\* C18: Check and every operation of the statistics engine leave the cell
\* array, AREA_members, AREA_cells, AREA_self_collisions, members and
\* collisions unchanged; only Insert changes them.
OnlyInsertMutates ==
    [][ /\ (pc = "Check" \/ pc' = "Check" \/ last'.op = "Statistics")
           => Core' = Core
        /\ Core' # Core => pc = "Insert" ]_vars

\* a statistic has been taken on a filter that two Inserts left with a
\* label overwritten
StatisticsTaken ==
    /\ pc = "idle"
    /\ last.op = "Statistics"
    /\ members = 2
    /\ branch = "lower"

\* C19: GetAreaEmersion(a) returns the sentinel -1, without a division,
\* whenever AREA_members[a] = 0 (or HASH_number = 0); otherwise it returns
\* AREA_cells[a] / (AREA_members[a]*HASH_number - AREA_self_collisions[a]).
EmersionSentinel ==
    pc = "idle" =>
      \A a \in { 1, AREA_number } :
        LET ret == GetAreaEmersion(Heap, a)
        IN  IF AREA_members[a] = 0 \/ HASH_number = 0
            THEN ret.num = -1 /\ ret.den = 1 /\ ~ret.divides
            ELSE /\ ret.divides
                 /\ ret.num = AREA_cells[a]
                 /\ ret.den = AREA_members[a] * HASH_number
                                - AREA_self_collisions[a]

\* a statistic has been taken on a filter where area 1 has no member and
\* holds no cell while area AREA_number has members
EmersionOfEmptyArea ==
    /\ pc = "idle"
    /\ last.op = "Statistics"
    /\ AREA_members[1] = 0
    /\ AREA_members[AREA_number] > 0
    /\ GetAreaEmersion(Heap, 1).num = -1
    /\ GetAreaEmersion(Heap, AREA_number).num > 0

\* C20: once Insert(E, A) with a label in [1, AREA_number] has completed,
\* Check(E) returns a value >= A, hence never 0, in every later state,
\* whatever Inserts follow and in whatever order of labels: it holds when
\* the Insert returns, no later step lowers the value Check(E) returns, and
\* that value is what a running Check returns.
NoFalseNegatives ==
    /\ [][ AfterInsert' => CheckOf(filter', last'.string) >= last'.area ]_vars
    /\ [][ filter' # filter
           => \A E \in Elements, A \in Labels :
                 CheckOf(filter, E) >= A => CheckOf(filter', E) >= A ]_vars
    /\ [][ CheckReturns => last'.ret = CheckOf(filter, frame.string) ]_vars

\* Insert(E, AREA_number) has completed, a later Insert with label 1 has
\* gone through cells of E, and Check(E) has then returned AREA_number
LowerInsertAfterHigher ==
    /\ pc = "idle"
    /\ last.op = "Check"
    /\ last.ret = AREA_number
    /\ ~ascending
    /\ branch = "greater"
    /\ entry.area = 1
    /\ AREA_number > 1

\* Insert returns in this step
InsertReturns == pc = "Insert" /\ pc' = "idle"

\* C21: after every completed Insert, for any sequence of Inserts with
\* labels in [1, AREA_number], collisions + (AREA_cells[1] + ... +
\* AREA_cells[AREA_number]) = HASH_number * members: every hash round either
\* filled an empty cell or was counted as exactly one collision.
RoundsAccounted ==
    [][ InsertReturns =>
          collisions' + SumCells(AREA_cells', AREA_number) = HASH_number * members'
      ]_vars

\* two Inserts have returned, the second with the lower label: a round of
\* it met a greater label, and some cell was filled
RoundsAccountedReached ==
    /\ AfterInsert
    /\ members = 2
    /\ branch = "greater"
    /\ collisions > 0
    /\ SumCells(AREA_cells, AREA_number) > 0

\* C22: for every area a with AREA_members[a] >= 1, after Inserts with
\* labels in [1, AREA_number] in any order, AREA_members[a]*HASH_number -
\* AREA_self_collisions[a] >= 1 and 0 <= AREA_cells[a] <= that difference,
\* so GetAreaEmersion divides by a positive number and returns a value in
\* [0, 1].
EmersionInUnitInterval ==
    [][ InsertReturns =>
          \A a \in 1..AREA_number :
            AREA_members'[a] >= 1 =>
              LET potential == AREA_members'[a] * HASH_number
                               - AREA_self_collisions'[a]
                  ret == GetAreaEmersion(Heap', a)
              IN  /\ potential >= 1
                  /\ 0 <= AREA_cells'[a]
                  /\ AREA_cells'[a] <= potential
                  /\ ret.divides
                  /\ ret.den >= 1
                  /\ 0 <= ret.num
                  /\ ret.num <= ret.den
      ]_vars

\* an Insert whose two rounds hit the same cell has returned, out of the
\* ascending order: its area has one self-collision and the divisor is 1
EmersionDivisorOne ==
    /\ AfterInsert
    /\ ~ascending
    /\ HASH_number = 2
    /\ AREA_members[last.area] = 1
    /\ AREA_self_collisions[last.area] = 1
    /\ GetAreaEmersion(Heap, last.area).den = 1

\* the (element, label) pairs Insert is called with
Insertions == Elements \X Labels

\* the ways to pick two different insertions, the order left open
TwoInsertions == { two \in SUBSET Insertions : Cardinality(two) = 2 }

\* the cells the hash rounds of string map to
Indexes(string) == { DeriveIndex(string, k) : k \in 0..(HASH_number - 1) }

Maximum(x, y) == IF x >= y THEN x ELSE y

\* two heaps that differ at most in AREA_self_collisions (and in the branch
\* taken last)
SameButSelfCollisions(x, y) ==
    /\ x.filter = y.filter
    /\ x.AREA_cells = y.AREA_cells
    /\ x.AREA_members = y.AREA_members
    /\ x.members = y.members
    /\ x.collisions = y.collisions
    /\ \A e \in Elements : CheckOf(x.filter, e) = CheckOf(y.filter, e)

\* two different insertions run on the heap h in either order end with
\* heaps that differ at most in AREA_self_collisions
Exchangeable(h) ==
    \A two \in TwoInsertions :
       LET first == CHOOSE p \in two : TRUE
           second == CHOOSE p \in two : p # first
       IN  \A x \in InsertBoth(h, first, second),
              y \in InsertBoth(h, second, first) :
                SameButSelfCollisions(x, y)

\* C23: for a fixed multiset of (element, label) insertions with labels in
\* [1, AREA_number] the final cell array is the same for every insertion
\* order. An Insert leaves in every cell the maximum of what the cell held
\* and of the label of the rounds that mapped to it, and from the fresh
\* filter and from every state an Insert returns to with another Insert to
\* come, two Inserts run in either order end with the same cells,
\* AREA_cells, AREA_members, members, collisions and Check results; only
\* AREA_self_collisions may differ. Exchanging neighbours yields every order.
OrderIndependent ==
    /\ Fresh => Exchangeable(Heap)
    /\ [][ InsertReturns =>
             /\ \A i \in 0..(cells - 1) :
                   GetCell(filter', i) =
                     Maximum(GetCell(entry.filter, i),
                             IF i \in Indexes(frame.string) THEN frame.area ELSE 0)
             /\ members' < MaxInserts => Exchangeable(Heap')
         ]_vars

\* two Inserts have run on the fresh filter, and the other order ends with
\* the same cells and different self-collision counters
SelfCollisionsDependOnOrder ==
    /\ AfterInsert
    /\ members = 2
    /\ \E first \in Insertions :
         LET second == << last.string, last.area >>
         IN  /\ [ Heap EXCEPT !.branch = "none" ]
                   \in { [ x EXCEPT !.branch = "none" ] :
                            x \in InsertBoth(FreshHeap, first, second) }
             /\ \E y \in InsertBoth(FreshHeap, second, first) :
                   /\ y.filter = filter
                   /\ y.AREA_self_collisions # AREA_self_collisions

\* C24: every call to Check releases both arrays it allocates (the XOR
\* buffer and the digest) before it returns, on every return path, the
\* early return on an empty cell included.
CheckReleasesBuffers ==
    (pc = "idle" /\ last.op = "Check") => last.leaked = {}

====
